---- MODULE Spec2Model ----
(***************************************************************************)
(* The RCON client of factai: class rcon of src/rcon.py (multi-packet      *)
(* receive loop, _receive_all) and class rcon of                           *)
(* src/pyfactorio/api/rcon.py (single-packet receive inside _send).        *)
(* Bytes are naturals 0..255, byte strings are sequences of them, texts    *)
(* are sequences of Unicode code points.  A socket is an index into socks. *)
(***************************************************************************)
EXTENDS Integers, Sequences, FiniteSets, TLC

\* ---------------------------------------------------------------- bounds
MaxCalls == 3     \* calls the caller makes on the one client instance
MaxPkts == 3      \* frames the server queues on the instance's connections
MaxSocks == 2     \* sockets the instance creates
MaxRead == 4      \* the length asked of _read
MaxProcs == 2     \* server processes a controller launches
MaxLines == 2     \* lines a server process prints
MaxEnvCalls == 5  \* calls of step() and reset() on one FactorioEnv
MaxObs == 2       \* calls of render() on one RendererHuman
MaxWindows == 2   \* calls of init() and zoom() on one RendererHuman

\* ------------------------------------------------------- program constants
SERVERDATA_AUTH == 3          \* out_type used by connect()
SERVERDATA_EXECCOMMAND == 2   \* out_type used by command()
REQUEST_ID == 0               \* the request id every request carries
LOGIN_FAILED_ID == -1         \* the response id that signals a rejected login

NoSock == 0                   \* self.socket is None
PAD == <<0, 0>>               \* b"\x00\x00"

\* ---------------------------------------------------------------- inputs
Password == <<112, 97, 115, 115>>                 \* "pass" (src/serv.py)
Texts == {<<>>, <<47, 233>>}                      \* "", "/e-acute"
AB == <<97, 98>>                                  \* b"ab"
CD == <<99, 100>>                                 \* b"cd"
\* The response packets a server may queue: well-formed ones, ones with a
\* wrong padding, ones with the login-failure id, one with both.
SrvPackets ==
    {[id |-> REQUEST_ID, type |-> 0, body |-> AB, pad |-> PAD],
     [id |-> REQUEST_ID, type |-> SERVERDATA_EXECCOMMAND, body |-> CD, pad |-> PAD],
     [id |-> REQUEST_ID, type |-> SERVERDATA_EXECCOMMAND, body |-> AB, pad |-> <<0, 1>>],
     [id |-> LOGIN_FAILED_ID, type |-> SERVERDATA_EXECCOMMAND, body |-> <<>>, pad |-> PAD],
     [id |-> LOGIN_FAILED_ID, type |-> 0, body |-> AB, pad |-> PAD],
     [id |-> LOGIN_FAILED_ID, type |-> 0, body |-> AB, pad |-> <<1, 0>>]}

\* ------------------------------------------------------------- struct.pack
\* struct.pack("<i", n): two's complement, little endian (\div floors, % is
\* the mathematical modulus, so negative n comes out right).
PackI32(n) ==
    <<n % 256, (n \div 256) % 256, (n \div 65536) % 256, (n \div 16777216) % 256>>

\* struct.unpack("<i", b)
UnpackI32(b) ==
    b[1] + 256 * b[2] + 65536 * b[3]
      + 16777216 * (IF b[4] >= 128 THEN b[4] - 256 ELSE b[4])

\* ----------------------------------------------------------------- UTF-8
\* str.encode("utf8") of one code point (code points of the BMP).
Utf8Char(c) ==
    IF c < 128 THEN <<c>>
    ELSE IF c < 2048 THEN <<192 + (c \div 64), 128 + (c % 64)>>
    ELSE <<224 + (c \div 4096), 128 + ((c \div 64) % 64), 128 + (c % 64)>>

RECURSIVE Utf8Encode(_)
Utf8Encode(s) ==
    IF s = <<>> THEN <<>> ELSE Utf8Char(Head(s)) \o Utf8Encode(Tail(s))

IsCont(b) == b >= 128 /\ b <= 191

\* bytes.decode("utf8"): [ok, s]; ok = FALSE is UnicodeDecodeError.  Lead
\* bytes of four-byte sequences do not occur in the model's inputs.
RECURSIVE Utf8Decode(_)
Utf8Decode(b) ==
    IF b = <<>> THEN [ok |-> TRUE, s |-> <<>>]
    ELSE LET h == b[1]
             n == IF h < 128 THEN 1
                  ELSE IF h >= 194 /\ h <= 223 THEN 2
                  ELSE IF h >= 224 /\ h <= 239 THEN 3
                  ELSE 0
         IN IF n = 0 \/ Len(b) < n THEN [ok |-> FALSE, s |-> <<>>]
            ELSE IF n >= 2 /\ ~IsCont(b[2]) THEN [ok |-> FALSE, s |-> <<>>]
            ELSE IF n = 3 /\ (~IsCont(b[3]) \/ (h = 224 /\ b[2] < 160)
                                \/ (h = 237 /\ b[2] >= 160))
                 THEN [ok |-> FALSE, s |-> <<>>]
            ELSE LET c == IF n = 1 THEN h
                          ELSE IF n = 2 THEN (h - 192) * 64 + (b[2] - 128)
                          ELSE (h - 224) * 4096 + (b[2] - 128) * 64 + (b[3] - 128)
                     r == Utf8Decode(SubSeq(b, n + 1, Len(b)))
                 IN IF r.ok THEN [ok |-> TRUE, s |-> <<c>> \o r.s]
                    ELSE [ok |-> FALSE, s |-> <<>>]

\* --------------------------------------------------------------- msgpack
\* msgpack.unpackb(b) for the one-object formats the model's bodies can
\* hold: positive/negative fixint, fixstr, nil, false, true.  ok = FALSE is
\* the exception unpackb raises (incomplete input, extra data, bad UTF-8).
NoRet == [kind |-> "none", v |-> <<>>]
UnpackFailed == [ok |-> FALSE, ret |-> NoRet]

Unpackb(b) ==
    IF b = <<>> THEN UnpackFailed
    ELSE LET h == b[1] IN
         IF h <= 127 \/ h >= 224
         THEN IF Len(b) = 1
              THEN [ok |-> TRUE,
                    ret |-> [kind |-> "int", v |-> <<IF h <= 127 THEN h ELSE h - 256>>]]
              ELSE UnpackFailed
         ELSE IF h >= 160 /\ h <= 191
         THEN IF Len(b) = 1 + (h - 160)
              THEN LET d == Utf8Decode(Tail(b)) IN
                   IF d.ok THEN [ok |-> TRUE, ret |-> [kind |-> "str", v |-> d.s]]
                   ELSE UnpackFailed
              ELSE UnpackFailed
         ELSE IF h \in {192, 194, 195}
         THEN IF Len(b) = 1
              THEN [ok |-> TRUE, ret |-> [kind |-> "const", v |-> <<h>>]]
              ELSE UnpackFailed
         ELSE UnpackFailed

\* ----------------------------------------------------------------- state
VARIABLES
    impl,       \* the client class: "rcon" (src/rcon.py) or "api" (pyfactorio/api)
    tlsmode,    \* self.tlsmode
    sock,       \* self.socket: NoSock or an index into socks
    socks,      \* every socket object the instance has created
    inbuf,      \* bytes queued in self.socket, not yet read by the client
    pc,         \* "idle", or where the running connect()/command() stands:
                \* "recv", "poll", or "spin" (inside _read for ever)
    call,       \* the running call: op, unpack flag, the frame it wrote
    in_data,    \* in_data of _receive_all
    rx,         \* the response packets the running/last call has parsed,
                \* each with the payload bytes (raw) it was parsed from
    result,     \* how the last finished call ended
    calls,      \* number of calls made so far
    srvSent,    \* frames the server has queued so far
    authed,     \* the last connect() returned normally and no disconnect() since
    scope,      \* with-statement: "none", "enter" (in __enter__), "body"
    scopeSock,  \* the socket opened for the current/last with-statement
    scopeEnd,   \* how the last with-statement was left
    intag,      \* for each frame queued in inbuf: the request it answers
    other,      \* a second thread calling command() on the same instance
    rd,         \* one call of _read: what it asked for, has got, and the
                \* bytes the transport has still to deliver
    ctl,        \* a FactorioController with its launcher threads and the
                \* server processes they started
    run,        \* a FactorioRunner with its launcher thread and process
    env,        \* a FactorioEnv: its step type, counters and last call
    rnd         \* a RendererHuman: its queue, render thread, caller and
                \* render_lock

\* The state of the rcon instance, its sockets and its threads.
rconVars == <<impl, tlsmode, sock, socks, inbuf, pc, call, in_data, rx, result,
              calls, srvSent, authed, scope, scopeSock, scopeEnd, intag, other>>

vars == <<rconVars, rd, ctl, run, env, rnd>>

\* A call: the operation, the unpack flag and text it passes to _send, the
\* frame it has written, and self.socket as the call found it; req numbers
\* the request among the packets written on its socket (0: none written).
CallOf(op, unpack, text, wrote, before) ==
    [op |-> op, unpack |-> unpack, text |-> text, wrote |-> wrote, before |-> before,
     req |-> IF wrote = <<>> THEN 0
             ELSE IF op = "connect" THEN 1
             ELSE Len(socks[before].out) + 1]

NoCall == CallOf("none", FALSE, <<>>, <<>>, NoSock)

\* time.sleep(0.003) of command(), in milliseconds
COMMAND_DELAY_MS == 3

\* The delay sitting in _send, where connect() would run it too.
Slept_inSend(op, st) ==
    IF st = "ok" /\ op \in {"connect", "command"} THEN <<COMMAND_DELAY_MS>> ELSE <<>>

\* The delays a call of op that ended with st has run: command() sleeps once
\* between the return of _send and its own return, and an exception out of
\* _send skips the sleep.
Slept(op, st) ==
    IF op = "command" /\ st = "ok" THEN <<COMMAND_DELAY_MS>> ELSE <<>>

\* How call c ended: st is "ok" or the exception, data the bytes assembled
\* (in_data when the call returns), ret the value returned, slept the delays
\* run before the call ended.
ResultOf(c, st, data, ret) ==
    [op |-> c.op, unpack |-> c.unpack, text |-> c.text, wrote |-> c.wrote,
     before |-> c.before, req |-> c.req, st |-> st, data |-> data, ret |-> ret,
     slept |-> Slept(c.op, st)]

\* result while a call is running
Pending == ResultOf(NoCall, "pending", <<>>, NoRet)

\* The second thread before its call.
OtherIdle ==
    [pc |-> "idle", call |-> NoCall, in_data |-> <<>>, rx |-> <<>>, result |-> Pending]

\* The instance as __init__ leaves it, built with tlsmode = tm.
Constructed(tm) ==
    /\ impl \in {"rcon", "api"}
    /\ tlsmode = tm
    /\ sock = NoSock
    /\ socks = <<>>
    /\ inbuf = <<>>
    /\ pc = "idle"
    /\ call = NoCall
    /\ in_data = <<>>
    /\ rx = <<>>
    /\ result = Pending
    /\ calls = 0
    /\ srvSent = 0
    /\ authed = FALSE
    /\ scope = "none"
    /\ scopeSock = NoSock
    /\ scopeEnd = "none"
    /\ intag = <<>>
    /\ other = OtherIdle

\* No call of _read is followed byte by byte.
NoRead == [pc |-> "none", length |-> 0, data |-> <<>>, stream |-> <<>>, all |-> <<>>]

\* No FactorioController is followed.
NoController ==
    [ready |-> FALSE, main |-> "none", proc |-> 0, procs |-> <<>>,
     threads |-> <<>>, attempts |-> <<>>, quitting |-> FALSE, rcon |-> 0,
     conns |-> <<>>]

\* No FactorioRunner is followed.
NoRunner ==
    [variant |-> "none", ready |-> FALSE, main |-> "none", thread |-> "none",
     alive |-> FALSE, pipe |-> <<>>, emitted |-> 0, joined |-> FALSE]

\* No FactorioEnv is followed.
NoEnv ==
    [state |-> "none", step_mul |-> 0, episode_count |-> 0, episode_steps |-> 0,
     total_steps |-> 0, restarts |-> 0, acts |-> <<>>, stepped |-> 0, calls |-> 0,
     last |-> [op |-> "none", end |-> "none"]]

\* No RendererHuman is followed.
NoRenderer ==
    [has |-> {}, sync |-> FALSE, initialized |-> "unset", queue |-> <<>>,
     unfinished |-> 0, thread |-> "none", cur |-> 0, lock |-> "none",
     main |-> "none", op |-> "none", closed |-> FALSE, puts |-> <<>>,
     rendered |-> <<>>, renders |-> 0, windows |-> 0, closes |-> 0,
     last |-> "none"]

\* Nothing but the rcon instance is followed.
RconOnly ==
    rd = NoRead /\ ctl = NoController /\ run = NoRunner /\ env = NoEnv /\ rnd = NoRenderer

\* rcon(host, password): tlsmode is the constructor's default
Init == Constructed(0) /\ RconOnly

\* rcon(host, password, tlsmode=1) and rcon(host, password, tlsmode=2)
InitTls == (\E tm \in {1, 2} : Constructed(tm)) /\ RconOnly

\* ------------------------------------------------------------ the frames
\* A frame whose length prefix counts its own four bytes too.
Frame_lengthCountsPrefix(out_type, out_data) ==
    LET out_payload == PackI32(REQUEST_ID) \o PackI32(out_type)
                         \o Utf8Encode(out_data) \o PAD
    IN PackI32(Len(out_payload) + 4) \o out_payload

\* _send: the request frame, out_length + out_payload.
Frame(out_type, out_data) ==
    LET out_payload == PackI32(REQUEST_ID) \o PackI32(out_type)
                         \o Utf8Encode(out_data) \o PAD
    IN PackI32(Len(out_payload)) \o out_payload

\* The frame a server writes for response packet p (the same frame shape).
ServerFrame(p) ==
    LET payload == PackI32(p.id) \o PackI32(p.type) \o p.body \o p.pad
    IN PackI32(Len(payload)) \o payload

\* _read(4) followed by _read(in_length) can both complete on buf: a _read
\* of a length <= 0 returns b"" at once.
HasFrame(buf) ==
    /\ Len(buf) >= 4
    /\ LET n == UnpackI32(SubSeq(buf, 1, 4)) IN Len(buf) >= 4 + (IF n > 0 THEN n ELSE 0)

\* in_payload of the first frame of buf, and what stays queued behind it.
FirstPayload(buf) ==
    LET n == UnpackI32(SubSeq(buf, 1, 4))
        l == IF n > 0 THEN n ELSE 0
    IN [payload |-> SubSeq(buf, 5, 4 + l), rest |-> SubSeq(buf, 5 + l, Len(buf))]

\* The tags of the frames still queued when a call leaves buf1 of the
\* queue: nothing, all of it, or all but the one frame it has just read.
QueuedTags(tags, buf1) ==
    IF buf1 = <<>> THEN <<>>
    ELSE IF Len(buf1) = Len(inbuf) THEN tags
    ELSE Tail(tags)

\* buf and tags without their i-th frame.
RECURSIVE FrameAt(_, _, _)
FrameAt(buf, tags, i) ==
    LET f == FirstPayload(buf) IN
    IF i = 1
    THEN [payload |-> f.payload, rest |-> f.rest, tag |-> Head(tags), tags |-> Tail(tags)]
    ELSE LET g == FrameAt(f.rest, Tail(tags), i - 1) IN
         [payload |-> g.payload,
          rest |-> SubSeq(buf, 1, Len(buf) - Len(f.rest)) \o g.rest,
          tag |-> g.tag,
          tags |-> <<Head(tags)>> \o g.tags]

\* A reader that picks the first queued frame answering its own request.
Dequeue_correlated(buf, tags, req) ==
    LET own == {i \in 1..Len(tags) : tags[i].re = req} IN
    IF own = {} THEN FrameAt(buf, tags, 1)
    ELSE FrameAt(buf, tags, CHOOSE i \in own : \A j \in own : i <= j)

\* What a reader whose request is req takes from the queue: _read takes the
\* bytes at the front of the stream, so the frame is the oldest one queued,
\* whichever request it answers -- req plays no part.
Dequeue(buf, tags, req) == FrameAt(buf, tags, 1)

\* A parse that leaves the first padding byte in the body.
ParsePayload_wideBody(pl) ==
    [id |-> UnpackI32(SubSeq(pl, 1, 4)),
     type |-> UnpackI32(SubSeq(pl, 5, 8)),
     body |-> SubSeq(pl, 9, Len(pl) - 1),
     pad |-> SubSeq(pl, Len(pl) - 1, Len(pl))]

\* in_id, in_type = unpack("<ii", in_payload[:8]);
\* in_data_partial, in_padding = in_payload[8:-2], in_payload[-2:]
\* (for a payload of at least 8 bytes).
ParsePayload(pl) ==
    [id |-> UnpackI32(SubSeq(pl, 1, 4)),
     type |-> UnpackI32(SubSeq(pl, 5, 8)),
     body |-> SubSeq(pl, 9, Len(pl) - 2),
     pad |-> SubSeq(pl, Len(pl) - 1, Len(pl))]

\* x[:-1]
StripLast(x) == SubSeq(x, 1, Len(x) - 1)

\* Sanity checks without the padding check.
SanityCheck_noPadding(pkt) ==
    IF pkt.id = LOGIN_FAILED_ID THEN "login" ELSE "ok"

\* Sanity checks that look for the login sentinel in auth responses only.
SanityCheck_typedLogin(pkt) ==
    IF pkt.pad # PAD THEN "padding"
    ELSE IF pkt.id = LOGIN_FAILED_ID /\ pkt.type = SERVERDATA_EXECCOMMAND THEN "login"
    ELSE "ok"

\* Sanity checks without the login check.
SanityCheck_noLogin(pkt) ==
    IF pkt.pad # PAD THEN "padding" ELSE "ok"

\* Sanity checks that look at the login sentinel before the padding.
SanityCheck_loginFirst(pkt) ==
    IF pkt.id = LOGIN_FAILED_ID THEN "login"
    ELSE IF pkt.pad # PAD THEN "padding"
    ELSE "ok"

\* The sanity checks: padding first, then the login sentinel.
SanityCheck(pkt) ==
    IF pkt.pad # PAD THEN "padding"
    ELSE IF pkt.id = LOGIN_FAILED_ID THEN "login"
    ELSE "ok"

\* in_data = b"" at the top of the loop body, then in_data += in_data_partial.
Accumulate(acc, partial) ==
    LET fresh == <<>> IN fresh \o partial

\* A disconnect that closes the socket and keeps the reference to it.
Disconnected_keepsSocket(s, ss) ==
    [sock |-> s,
     socks |-> IF s # NoSock THEN [ss EXCEPT ![s].st = "closed"] ELSE ss]

\* disconnect(): close the socket if there is one, then self.socket = None.
Disconnected(s, ss) ==
    [sock |-> NoSock,
     socks |-> IF s # NoSock THEN [ss EXCEPT ![s].st = "closed"] ELSE ss]

\* socket.socket(...), wrapped by the TLS context when tlsmode > 0; hostname
\* and certificate checks are switched off when tlsmode > 1.
\* A socket wrapped in TLS whatever the mode.
NewSocket_alwaysWrapped(tm) ==
    [st |-> "created", tls |-> TRUE, verify |-> tm = 1, handshake |-> FALSE,
     out |-> <<>>, eof |-> FALSE]

NewSocket(tm) ==
    [st |-> "created", tls |-> tm > 0, verify |-> tm = 1, handshake |-> FALSE,
     out |-> <<>>, eof |-> FALSE]

\* The request written again after the first write.
Sent_twice(log, out_type) == Append(Append(log, out_type), out_type)

\* self.socket.send(out_length + out_payload), once per _send: the packet
\* joins the log of what was written on the socket.
Sent(log, out_type) == Append(log, out_type)

\* How self.socket.send() on socket s can end.  A socket that never got
\* connected raises OSError.  After a failed TLS handshake the socket is
\* still connected at the TCP level and ssl.SSLSocket.send falls back to the
\* plain socket: the bytes go out unencrypted, or the peer has dropped the
\* connection and the send raises.
SendOutcomes(s) ==
    IF s.st # "connected" THEN {"oserror"}
    ELSE IF s.tls /\ ~s.handshake THEN {"ok", "oserror"}
    ELSE {"ok"}

\* A poll that reports nothing pending whatever is queued.
NothingPending_always(buf, s) == TRUE

\* A poll that reports nothing pending when something is queued.
NothingPending_inverted(buf, s) == Len(buf) # 0

\* len(select.select([self.socket], [], [], 0)[0]) == 0: at this instant
\* nothing is queued in socket s, and its peer has not closed it.
NothingPending(buf, s) == Len(buf) = 0 /\ ~s.eof

\* How self.socket.connect() can end.
ConnectOutcomes(tm) ==
    {"ok", "refused"} \cup (IF tm > 0 THEN {"tlsfail"} ELSE {})

\* ------------------------------------------------------------ call endings
\* Call c raises st.  s1, ss1, buf1: self.socket, the sockets and the queue
\* as the call leaves them; sc: the with-statement position of the call.
\* An exception in the with-body runs __exit__ (disconnect); one inside
\* __enter__ leaves the statement without __exit__.
Raised(c, st, s1, ss1, buf1, sc) ==
    /\ pc' = "idle"
    /\ call' = NoCall
    /\ result' = ResultOf(c, st, <<>>, NoRet)
    /\ authed' = (authed /\ c.op # "connect" /\ sc # "body")
    /\ IF sc = "body"
       THEN /\ sock' = Disconnected(s1, ss1).sock
            /\ socks' = Disconnected(s1, ss1).socks
            /\ inbuf' = <<>>
            /\ scope' = "none"
            /\ scopeEnd' = "body_raised"
       ELSE /\ sock' = s1
            /\ socks' = ss1
            /\ inbuf' = buf1
            /\ scope' = IF sc = "enter" THEN "none" ELSE scope
            /\ scopeEnd' = IF sc = "enter" THEN "enter_raised" ELSE scopeEnd
    /\ intag' = QueuedTags(intag, inbuf')

\* The running call returns ret, made from the assembled bytes data.
Returned(data, ret, buf1) ==
    /\ pc' = "idle"
    /\ call' = NoCall
    /\ result' = ResultOf(call, "ok", data, ret)
    /\ inbuf' = buf1
    /\ intag' = QueuedTags(intag, buf1)
    /\ authed' = (authed \/ call.op = "connect")
    /\ scope' = IF scope = "enter" THEN "body" ELSE scope
    /\ UNCHANGED <<sock, socks, scopeEnd>>

\* --------------------------------------------------------------- connect
\* connect(): a new socket replaces self.socket, TCP connect (and the TLS
\* handshake), then _send(3, password) up to the write.
connect(outcome, sc) ==
    LET id == Len(socks) + 1
        s0 == NewSocket(tlsmode)
    IN
    /\ pc = "idle"
    /\ calls < MaxCalls
    /\ Len(socks) < MaxSocks
    /\ calls' = calls + 1
    /\ rx' = <<>>
    /\ in_data' = <<>>
    /\ scopeSock' = IF sc = "enter" THEN id ELSE scopeSock
    /\ UNCHANGED <<impl, rd, ctl, run, env, rnd, tlsmode, other, srvSent>>
    /\ IF outcome = "ok"
       THEN /\ sock' = id
            /\ socks' = Append(socks, [s0 EXCEPT !.st = "connected",
                                                 !.handshake = s0.tls,
                                                 !.out = Sent(<<>>, SERVERDATA_AUTH)])
            /\ inbuf' = <<>>
            /\ intag' = <<>>
            /\ pc' = "recv"
            /\ call' = CallOf("connect", FALSE, Password,
                              Frame(SERVERDATA_AUTH, Password), sock)
            /\ scope' = sc
            /\ result' = Pending
            /\ authed' = FALSE
            /\ UNCHANGED scopeEnd
       ELSE Raised(CallOf("connect", FALSE, Password, <<>>, sock), outcome, id,
                   Append(socks, [s0 EXCEPT !.st = IF outcome = "tlsfail"
                                                    THEN "connected" ELSE "created"]),
                   <<>>, sc)

Connect ==
    /\ scope = "none"
    /\ \E outcome \in ConnectOutcomes(tlsmode) : connect(outcome, "none")

\* with rcon(...) as r: on a new instance (src/serv.py) -- __enter__ calls
\* connect().
WithEnter ==
    /\ scope = "none"
    /\ calls = 0
    /\ \E outcome \in ConnectOutcomes(tlsmode) : connect(outcome, "enter")

\* self.socket = socket.socket(...) in connect() drops the reference to the
\* socket self.socket held, without close().  What becomes of it is up to
\* the interpreter: its finalizer closes the socket when the object is
\* collected -- at the assignment, later, or not within the run.
Finalize ==
    /\ \E i \in 1..Len(socks) :
          /\ i # sock
          /\ socks[i].st # "closed"
          /\ socks' = [socks EXCEPT ![i].st = "closed"]
    /\ UNCHANGED <<impl, rd, ctl, run, env, rnd, tlsmode, other, sock, inbuf, intag, pc, call, in_data, rx,
                   result,
                   calls, srvSent, authed, scope, scopeSock, scopeEnd>>

\* ------------------------------------------------------------ disconnect
Disconnect ==
    /\ pc = "idle"
    /\ scope = "none"
    /\ calls < MaxCalls
    /\ calls' = calls + 1
    /\ sock' = Disconnected(sock, socks).sock
    /\ socks' = Disconnected(sock, socks).socks
    /\ inbuf' = <<>>
    /\ intag' = <<>>
    /\ result' = ResultOf(CallOf("disconnect", FALSE, <<>>, <<>>, sock), "ok",
                          <<>>, NoRet)
    /\ authed' = FALSE
    /\ rx' = <<>>
    /\ UNCHANGED <<impl, rd, ctl, run, env, rnd, tlsmode, other, pc, call, in_data, srvSent, scope,
                   scopeSock, scopeEnd>>

\* The with-body ends normally: __exit__ calls disconnect().
WithExit ==
    /\ pc = "idle"
    /\ scope = "body"
    /\ sock' = Disconnected(sock, socks).sock
    /\ socks' = Disconnected(sock, socks).socks
    /\ inbuf' = <<>>
    /\ intag' = <<>>
    /\ scope' = "none"
    /\ scopeEnd' = "normal"
    /\ result' = ResultOf(CallOf("disconnect", FALSE, <<>>, <<>>, sock), "ok",
                          <<>>, NoRet)
    /\ authed' = FALSE
    /\ rx' = <<>>
    /\ UNCHANGED <<impl, rd, ctl, run, env, rnd, tlsmode, other, pc, call, in_data, calls, srvSent, scopeSock>>

\* --------------------------------------------------------------- command
\* command(text) -> _send(2, text, unpack) up to the write.  src/rcon.py
\* always passes unpack=True; the api class takes it as a parameter.
\* socket.send on a socket that never got connected raises OSError.
Command(text, unpack) ==
    /\ pc = "idle"
    /\ scope \in {"none", "body"}
    /\ calls < MaxCalls
    /\ impl = "rcon" => unpack
    /\ calls' = calls + 1
    /\ rx' = <<>>
    /\ in_data' = <<>>
    /\ UNCHANGED <<impl, rd, ctl, run, env, rnd, tlsmode, other, scopeSock, srvSent>>
    /\ IF sock = NoSock
       THEN Raised(CallOf("command", unpack, text, <<>>, sock), "notconnected",
                   sock, socks, inbuf, scope)
       ELSE \E sent \in SendOutcomes(socks[sock]) :
            IF sent # "ok"
            THEN Raised(CallOf("command", unpack, text, <<>>, sock), sent,
                        sock, socks, inbuf, scope)
            ELSE
            /\ socks' = [socks EXCEPT ![sock].out = Sent(@, SERVERDATA_EXECCOMMAND)]
            /\ pc' = "recv"
            /\ call' = CallOf("command", unpack, text,
                              Frame(SERVERDATA_EXECCOMMAND, text), sock)
            /\ result' = Pending
            /\ UNCHANGED <<sock, inbuf, intag, authed, scope, scopeEnd>>

\* ---------------------------------------------------------------- server
\* Requests the server may be answering: those of the calls waiting for
\* their response, or else the last one written on the connection.
ReplyTargets ==
    LET waiting == (IF pc # "idle" THEN {call.req} ELSE {})
                     \cup (IF other.pc # "idle" THEN {other.call.req} ELSE {})
    IN IF waiting # {} THEN waiting ELSE {Len(socks[sock].out)}

\* The tag of a frame sent now in reply to request k; late: the call that
\* made the request has already returned.
TagOf(k) ==
    [re |-> k,
     late |-> pc = "idle" /\ other.pc = "idle" /\ result.st = "ok" /\ result.req = k]

\* The tag of a frame that is not followed back to a request.
NoTag == [re |-> 0, late |-> FALSE]

CanQueue ==
    /\ sock # NoSock
    /\ socks[sock].st = "connected"
    /\ socks[sock].out # <<>>
    /\ ~socks[sock].eof
    /\ srvSent < MaxPkts

\* The server queues one response frame on the connection.
ServerSend(p) ==
    /\ CanQueue
    /\ inbuf' = inbuf \o ServerFrame(p)
    /\ intag' = Append(intag, NoTag)
    /\ srvSent' = srvSent + 1
    /\ UNCHANGED <<impl, rd, ctl, run, env, rnd, tlsmode, other, sock, socks, pc, call, in_data, rx, result,
                   calls, authed, scope, scopeSock, scopeEnd>>

\* The server queues one response frame, followed back to the request it
\* answers.
ServerReply(p) ==
    /\ CanQueue
    /\ inbuf' = inbuf \o ServerFrame(p)
    /\ \E k \in ReplyTargets : intag' = Append(intag, TagOf(k))
    /\ srvSent' = srvSent + 1
    /\ UNCHANGED <<impl, rd, ctl, run, env, rnd, tlsmode, other, sock, socks, pc, call, in_data, rx, result,
                   calls, authed, scope, scopeSock, scopeEnd>>

\* A server that also queues frames after the call has returned.
ServerReplyInFlight_anytime(p) == ServerReply(p)

\* The flush assumption: the server queues the frames of a response while
\* the call that asked for it is still waiting, never after its return.
ServerReplyInFlight(p) ==
    /\ pc # "idle"
    /\ ServerReply(p)

\* Frames shorter than a packet can be: declared length -1, 4, 8 (header
\* of id 0 and type 2, nothing else) and 9 (the same header and one 00).
ShortFrames ==
    {<<255, 255, 255, 255>>,
     <<4, 0, 0, 0, 0, 0, 0, 0>>,
     <<8, 0, 0, 0, 0, 0, 0, 0, 2, 0, 0, 0>>,
     <<9, 0, 0, 0, 0, 0, 0, 0, 2, 0, 0, 0, 0>>}

\* The server queues the bytes of frame f as they are.
ServerSendRaw(f) ==
    /\ CanQueue
    /\ inbuf' = inbuf \o f
    /\ intag' = Append(intag, NoTag)
    /\ srvSent' = srvSent + 1
    /\ UNCHANGED <<impl, rd, ctl, run, env, rnd, tlsmode, other, sock, socks, pc, call, in_data, rx, result,
                   calls, authed, scope, scopeSock, scopeEnd>>

\* A mock server that sends the request frame back as the response.
ServerEcho ==
    /\ CanQueue
    /\ pc # "idle"
    /\ inbuf' = inbuf \o call.wrote
    /\ intag' = Append(intag, NoTag)
    /\ srvSent' = srvSent + 1
    /\ UNCHANGED <<impl, rd, ctl, run, env, rnd, tlsmode, other, sock, socks, pc, call, in_data, rx, result,
                   calls, authed, scope, scopeSock, scopeEnd>>

\* The server closes the connection: once the queued bytes are read, recv
\* returns b"" and select reports the socket readable.
ServerClose ==
    /\ sock # NoSock
    /\ socks[sock].st = "connected"
    /\ ~socks[sock].eof
    /\ socks' = [socks EXCEPT ![sock].eof = TRUE]
    /\ UNCHANGED <<impl, rd, ctl, run, env, rnd, tlsmode, other, sock, inbuf, intag, pc, call, in_data, rx,
                   result,
                   calls, srvSent, authed, scope, scopeSock, scopeEnd>>

\* --------------------------------------------------------------- receive
\* _read(length) on a connection the peer has closed, with nothing left in
\* the queue: recv returns b"", data stays shorter than length, and the
\* loop "while len(data) < length" calls recv again, for ever ("spin").
ReadAtEof ==
    /\ pc = "recv"
    /\ ~HasFrame(inbuf)
    /\ socks[sock].eof
    /\ pc' = "spin"
    /\ UNCHANGED <<impl, rd, ctl, run, env, rnd, tlsmode, other, sock, socks, inbuf, intag, call, in_data, rx,
                   result,
                   calls, srvSent, authed, scope, scopeSock, scopeEnd>>

\* One pass of the receive code over the first queued frame: the body of
\* the while loop of _receive_all up to the poll (src/rcon.py), or the
\* whole receive part of _send (src/pyfactorio/api/rcon.py).
ReadPacket ==
    /\ pc = "recv"
    /\ HasFrame(inbuf)
    /\ UNCHANGED <<impl, rd, ctl, run, env, rnd, tlsmode, other, calls, srvSent, scopeSock>>
    /\ LET f == Dequeue(inbuf, intag, call.req) IN
       IF Len(f.payload) < 8
       THEN /\ Raised(call, "struct", sock, socks, f.rest, scope)
            /\ UNCHANGED <<rx, in_data>>
       ELSE
       LET pkt == ParsePayload(f.payload)
           chk == SanityCheck(pkt)
       IN
       /\ rx' = Append(rx, [id |-> pkt.id, type |-> pkt.type, body |-> pkt.body,
                             pad |-> pkt.pad, raw |-> f.payload, tag |-> f.tag])
       /\ IF chk # "ok"
          THEN /\ Raised(call, chk, sock, socks, f.rest, scope)
               /\ UNCHANGED in_data
          ELSE IF impl = "rcon"
          THEN /\ in_data' = Accumulate(in_data,
                                 IF call.unpack THEN StripLast(pkt.body) ELSE pkt.body)
               /\ pc' = "poll"
               /\ inbuf' = f.rest
               /\ intag' = f.tags
               /\ UNCHANGED <<sock, socks, call, result, authed, scope, scopeEnd>>
          ELSE IF call.unpack
          THEN LET u == Unpackb(StripLast(pkt.body)) IN
               /\ in_data' = StripLast(pkt.body)
               /\ IF u.ok THEN Returned(StripLast(pkt.body), u.ret, f.rest)
                  ELSE Raised(call, "msgpack", sock, socks, f.rest, scope)
          ELSE LET d == Utf8Decode(pkt.body) IN
               /\ in_data' = pkt.body
               /\ IF d.ok THEN Returned(pkt.body, [kind |-> "str", v |-> d.s], f.rest)
                  ELSE Raised(call, "unicode", sock, socks, f.rest, scope)

\* select.select([self.socket], [], [], 0): nothing readable ends the call,
\* anything queued sends the loop round again.
Poll ==
    /\ pc = "poll"
    /\ UNCHANGED <<impl, rd, ctl, run, env, rnd, tlsmode, other, calls, srvSent, scopeSock, rx, in_data>>
    /\ IF NothingPending(inbuf, socks[sock])
       THEN IF call.unpack
            THEN LET u == Unpackb(in_data) IN
                 IF u.ok THEN Returned(in_data, u.ret, inbuf)
                 ELSE Raised(call, "msgpack", sock, socks, inbuf, scope)
            ELSE Returned(in_data, [kind |-> "bytes", v |-> in_data], inbuf)
       ELSE /\ pc' = "recv"
            /\ UNCHANGED <<sock, socks, inbuf, intag, call, result, authed, scope,
                           scopeEnd>>

\* The byte counts self.socket.send(frame) may return short of the whole
\* frame: socket.send hands the transport as much as it takes and returns
\* the count, which _send drops.
ShortWrites(frame) == 1..(Len(frame) - 1)

\* command() whose self.socket.send() took only the first k bytes of the
\* frame: _send goes on to read the response all the same.
CommandShortWrite(text, unpack) ==
    /\ pc = "idle"
    /\ scope \in {"none", "body"}
    /\ calls < MaxCalls
    /\ impl = "rcon" => unpack
    /\ sock # NoSock
    /\ "ok" \in SendOutcomes(socks[sock])
    /\ \E k \in ShortWrites(Frame(SERVERDATA_EXECCOMMAND, text)) :
          call' = CallOf("command", unpack, text,
                         SubSeq(Frame(SERVERDATA_EXECCOMMAND, text), 1, k), sock)
    /\ calls' = calls + 1
    /\ rx' = <<>>
    /\ in_data' = <<>>
    /\ pc' = "recv"
    /\ result' = Pending
    /\ UNCHANGED <<impl, rd, ctl, run, env, rnd, tlsmode, other, scopeSock, srvSent, sock, socks, inbuf,
                   intag, authed, scope, scopeEnd>>

\* ------------------------------------------------------------------ _read
\* self.socket.recv(n) asked with the whole length at every turn.
RecvAsk_full(length, data) == length

\* The n of self.socket.recv(length - len(data)).
RecvAsk(length, data) == length - Len(data)

\* One turn of "while len(data) < length": recv hands over the next k bytes
\* of the stream, at least one and at most what was asked for, however the
\* transport has split them.
ReadRecv ==
    /\ rd.pc = "loop"
    /\ Len(rd.data) < rd.length
    /\ \E k \in 1..Len(rd.stream) :
          /\ k <= RecvAsk(rd.length, rd.data)
          /\ rd' = [rd EXCEPT !.data = @ \o SubSeq(rd.stream, 1, k),
                              !.stream = SubSeq(@, k + 1, Len(@))]
    /\ UNCHANGED <<rconVars, ctl, run, env, rnd>>

\* len(data) < length is false: return data.
ReadReturn ==
    /\ rd.pc = "loop"
    /\ ~(Len(rd.data) < rd.length)
    /\ rd' = [rd EXCEPT !.pc = "done"]
    /\ UNCHANGED <<rconVars, ctl, run, env, rnd>>

\* -------------------------------------------------------------- launchers
\* is_ready = "joined the game", as its words.
IsReady == <<"joined", "the", "game">>

\* The lines a server process may print, each as its words.
OutputLines ==
    {<<"hosting", "game">>,
     <<"p1", "joined", "the", "game">>,
     <<"joined", "the", "lobby">>}

\* out.find(sub): the lowest index at which sub starts in out, or -1.
Find(out, sub) ==
    LET at == {i \in 0..(Len(out) - Len(sub)) : SubSeq(out, i + 1, i + Len(sub)) = sub}
    IN IF at = {} THEN -1 ELSE CHOOSE i \in at : \A j \in at : i <= j

\* A started server process: its stdout pipe holds the lines printed and
\* not yet read; joined tells whether a line with IsReady in it was printed.
NewProcess == [alive |-> TRUE, pipe |-> <<>>, emitted |-> 0, joined |-> FALSE]

\* The process prints a line.
Printed(p, line) ==
    [p EXCEPT !.pipe = Append(@, line),
              !.emitted = @ + 1,
              !.joined = @ \/ (\E i \in 1..Len(line) :
                                 i + Len(IsReady) - 1 <= Len(line)
                                 /\ SubSeq(line, i, i + Len(IsReady) - 1) = IsReady)]

\* FactorioController(): _ready False, no process, no thread, no rcon, not
\* quitting; conns holds every rcon client the controller has connected,
\* "open" or "closed", and rcon is the one self._rcon refers to (0: None).
NewController ==
    [ready |-> FALSE, main |-> "idle", proc |-> 0, procs |-> <<>>,
     threads |-> <<>>, attempts |-> <<>>, quitting |-> FALSE, rcon |-> 0,
     conns |-> <<>>]

\* A launcher that takes any line for the ready line.
ControllerReady_anyLine(out) == Find(out, IsReady) >= -1

\* out.find(is_ready) >= 0 in _start_process.
ControllerReady(out) == Find(out, IsReady) >= 0

\* start_game() up to its wait loop: the launcher thread is started.
SpawnLauncher(c) ==
    [c EXCEPT !.threads = Append(@, [pc |-> "start", process |-> 0]),
              !.main = "wait"]

\* start_game() on a new controller.
StartGame ==
    /\ ctl.main = "idle"
    /\ ctl' = SpawnLauncher(ctl)
    /\ UNCHANGED <<rconVars, rd, run, env, rnd>>

\* restart(): self._proc.terminate(), then start_game() up to its wait loop.
\* _ready is left as it is.
Restart ==
    /\ ctl.main = "up"
    /\ Len(ctl.threads) < MaxProcs
    /\ ctl' = SpawnLauncher([ctl EXCEPT !.procs[ctl.proc].alive = FALSE])
    /\ UNCHANGED <<rconVars, rd, run, env, rnd>>

\* _start_process of thread i up to its loop: Popen, self._proc = process.
Launch(i) ==
    /\ ctl.threads[i].pc = "start"
    /\ ctl' = [ctl EXCEPT !.procs = Append(@, NewProcess),
                          !.proc = Len(ctl.procs) + 1,
                          !.threads[i] = [pc |-> "loop", process |-> Len(ctl.procs) + 1]]
    /\ UNCHANGED <<rconVars, rd, run, env, rnd>>

\* Server process p prints a line.
Emit(p, line) ==
    /\ ctl.procs[p].alive
    /\ ctl.procs[p].emitted < MaxLines
    /\ ctl' = [ctl EXCEPT !.procs[p] = Printed(@, line)]
    /\ UNCHANGED <<rconVars, rd, run, env, rnd>>

\* One turn of the loop of thread i: the loop ends when _quitting is set;
\* else readline() on the stdout of self._proc, which blocks while that
\* process lives and has printed nothing new; at the end of the stream the
\* loop ends if the thread's own process has exited.
ReadLine(i) ==
    LET p == ctl.proc
        own == ctl.threads[i].process
    IN
    /\ ctl.threads[i].pc = "loop"
    /\ IF ctl.quitting
       THEN ctl' = [ctl EXCEPT !.threads[i].pc = "done"]
       ELSE IF ctl.procs[p].pipe # <<>>
       THEN ctl' = [ctl EXCEPT !.procs[p].pipe = Tail(@),
                               !.ready = @ \/ ControllerReady(Head(ctl.procs[p].pipe))]
       ELSE /\ ~ctl.procs[p].alive
            /\ ctl' = IF ctl.procs[own].alive THEN ctl
                      ELSE [ctl EXCEPT !.threads[i].pc = "done"]
    /\ UNCHANGED <<rconVars, rd, run, env, rnd>>

\* Server process p exits by itself; what it printed stays in the pipe.
ProcessExit(p) ==
    /\ ctl.procs[p].alive
    /\ ctl' = [ctl EXCEPT !.procs[p].alive = FALSE]
    /\ UNCHANGED <<rconVars, rd, run, env, rnd>>

\* start_game(): the wait loop sees _ready true; the sleep of 0.5 s.
WaitOver ==
    /\ ctl.main = "wait"
    /\ ctl.ready
    /\ ctl' = [ctl EXCEPT !.main = "connect"]
    /\ UNCHANGED <<rconVars, rd, run, env, rnd>>

\* start_game() from rcon(...) on: the client is created and connected.  The
\* attempt is recorded with the thread this start_game started, the process
\* that thread launched (0 if none yet) and whether that process has printed
\* a line with IsReady in it.
RconConnect ==
    LET t == Len(ctl.threads)
        own == ctl.threads[t].process
    IN
    /\ ctl.main = "connect"
    /\ ctl' = [ctl EXCEPT !.main = "up",
                          !.attempts = Append(@, [thread |-> t, proc |-> own,
                                                  joined |-> own # 0 /\ ctl.procs[own].joined]),
                          !.conns = Append(@, "open"),
                          !.rcon = Len(ctl.conns) + 1]
    /\ UNCHANGED <<rconVars, rd, run, env, rnd>>

\* quit() after start_game() has returned: _quitting is set, the join waits
\* at most 5 s whatever the thread does, the process is terminated and
\* forgotten, self._rcon is disconnected and forgotten.
Quit ==
    /\ ctl.main = "up"
    /\ ctl' = [ctl EXCEPT !.main = "quit",
                          !.quitting = TRUE,
                          !.procs[ctl.proc].alive = FALSE,
                          !.proc = 0,
                          !.conns[ctl.rcon] = "closed",
                          !.rcon = 0]
    /\ UNCHANGED <<rconVars, rd, run, env, rnd>>

\* The interpreter finalizes an rcon client the controller no longer refers
\* to: its socket is closed.  When, and whether, is up to the interpreter.
RconFinalize(k) ==
    /\ k # ctl.rcon
    /\ ctl.conns[k] = "open"
    /\ ctl' = [ctl EXCEPT !.conns[k] = "closed"]
    /\ UNCHANGED <<rconVars, rd, run, env, rnd>>

\* FactorioRunner(): _ready False; variant tells which of the two files.
NewRunner(v) ==
    [variant |-> v, ready |-> FALSE, main |-> "idle", thread |-> "none",
     alive |-> FALSE, pipe |-> <<>>, emitted |-> 0, joined |-> FALSE]

\* The test on out.find(is_ready) in _run_headless_server: >= -1 in
\* env/runner.py, >= 0 in api/api.py.
RunnerReady(v, out) ==
    IF v = "env" THEN Find(out, IsReady) >= -1 ELSE Find(out, IsReady) >= 0

\* start() up to its wait loop: the launcher thread is started.
RunnerStart ==
    /\ run.main = "idle"
    /\ run' = [run EXCEPT !.main = "wait", !.thread = "start"]
    /\ UNCHANGED <<rconVars, rd, ctl, env, rnd>>

\* _run_headless_server up to its loop: Popen, self._proc = process.
RunnerLaunch ==
    /\ run.thread = "start"
    /\ run' = [run EXCEPT !.thread = "loop", !.alive = TRUE]
    /\ UNCHANGED <<rconVars, rd, ctl, env, rnd>>

\* The server process prints a line.
RunnerEmit(line) ==
    /\ run.alive
    /\ run.emitted < MaxLines
    /\ run' = [run EXCEPT !.pipe = Printed(run, line).pipe,
                          !.emitted = Printed(run, line).emitted,
                          !.joined = Printed(run, line).joined]
    /\ UNCHANGED <<rconVars, rd, ctl, env, rnd>>

\* The server process exits.
RunnerExit ==
    /\ run.alive
    /\ run' = [run EXCEPT !.alive = FALSE]
    /\ UNCHANGED <<rconVars, rd, ctl, env, rnd>>

\* One turn of "while True": readline(), the break at the end of the stream
\* of an exited process, the test of the line.
RunnerReadLine ==
    /\ run.thread = "loop"
    /\ IF run.pipe # <<>>
       THEN run' = [run EXCEPT !.pipe = Tail(@),
                               !.ready = @ \/ RunnerReady(run.variant, Head(run.pipe))]
       ELSE /\ ~run.alive
            /\ run' = [run EXCEPT !.thread = "done"]
    /\ UNCHANGED <<rconVars, rd, ctl, env, rnd>>

\* start(): the wait loop sees _ready true.
RunnerWaitOver ==
    /\ run.main = "wait"
    /\ run.ready
    /\ run' = [run EXCEPT !.main = "started"]
    /\ UNCHANGED <<rconVars, rd, ctl, env, rnd>>

\* ------------------------------------------------------------ FactorioEnv
\* The step_mul values an environment is built with.
StepMuls == {1, 8}

\* The actions passed to step().
EnvActions == {"a", "b"}

\* _finalize: the counters are zero and the state is LAST, so that the first
\* step() resets.  acts are the actions given to controller.act, stepped
\* the number of times the controller was stepped, last the last call of
\* step() or reset() and how it ended.
NewEnv(mul) ==
    [state |-> "LAST", step_mul |-> mul, episode_count |-> 0, episode_steps |-> 0,
     total_steps |-> 0, restarts |-> 0, acts |-> <<>>, stepped |-> 0, calls |-> 0,
     last |-> [op |-> "none", end |-> "none"]]

\* _step(): its first statement builds a generator over self._controller,
\* the FactorioController, which is not iterable: TypeError is raised there,
\* before any controller is stepped and before the counters are touched.
InnerStep(e, op) ==
    [e EXCEPT !.calls = @ + 1, !.last = [op |-> op, end |-> "TypeError"]]

\* The body of reset() up to "return self._step()".
ResetBody(e) ==
    [e EXCEPT !.episode_steps = 0,
              !.restarts = IF e.episode_count # 0 THEN @ + 1 ELSE @,
              !.episode_count = @ + 1,
              !.state = "FIRST"]

\* reset()
EnvReset ==
    /\ env.state # "none"
    /\ env.calls < MaxEnvCalls
    /\ env' = InnerStep(ResetBody(env), "reset")
    /\ UNCHANGED <<rconVars, rd, ctl, run, rnd>>

\* step(actions)
EnvStep(actions) ==
    /\ env.state # "none"
    /\ env.calls < MaxEnvCalls
    /\ env' = IF env.state = "LAST"
              THEN InnerStep(ResetBody(env), "step")
              ELSE InnerStep([env EXCEPT !.acts = Append(@, actions),
                                         !.state = "MID"], "step")
    /\ UNCHANGED <<rconVars, rd, ctl, run, rnd>>

\* ---------------------------------------------------------- RendererHuman
\* The attributes the methods read that no line of the file sets before the
\* read: self._obs (set first in render_obs), self.prepare_actions and
\* self._video_writer (set nowhere).  Reading one raises AttributeError
\* unless a later stage of initialization or a subclass has provided it.
Attributes == {"_obs", "prepare_actions", "_video_writer"}

\* The falsy item close() sends through the queue.
NoneItem == 0

\* The calls of close() followed: the first and a repeated one.
MaxCloses == 2

\* RendererHuman(render_sync=sync): the queue is empty, the render thread is
\* started and _initialized is not set yet; has are the attributes provided.
\* puts and rendered list the observations queued and rendered, unfinished
\* is the queue's count of unfinished tasks, cur the item the thread holds.
NewRenderer(has, sync) ==
    [has |-> has, sync |-> sync, initialized |-> "unset", queue |-> <<>>,
     unfinished |-> 0, thread |-> "get", cur |-> 0, lock |-> "none",
     main |-> "idle", op |-> "none", closed |-> FALSE, puts |-> <<>>,
     rendered |-> <<>>, renders |-> 0, windows |-> 0, closes |-> 0,
     last |-> "none"]

\* self._obs_queue.put(item)
Put(r, item) == [r EXCEPT !.queue = Append(@, item), !.unfinished = @ + 1]

\* self._obs_queue.task_done()
TaskDone(r) == [r EXCEPT !.unfinished = @ - 1]

\* A lock left held when the function raises.
WithLockExit_leak(owner, outcome) == IF outcome = "raise" THEN owner ELSE "none"

\* with lock: ... return func(...): the lock is released however func ends.
WithLockExit(owner, outcome) == "none"

\* A loop that goes on after the falsy item.
LeavesLoop_never(item) == FALSE

\* "while obs" after the falsy item: the loop is left.
LeavesLoop(item) == item = NoneItem

\* render(obs) up to the join: nothing is done when not initialized; the
\* game-time bookkeeping reads self._obs; the observation is queued.
Render ==
    LET r == [rnd EXCEPT !.renders = @ + 1]
        obs == Len(rnd.puts) + 1
    IN
    /\ rnd.main = "idle"
    /\ rnd.renders < MaxObs
    /\ rnd' = IF r.initialized = "unset" THEN [r EXCEPT !.last = "AttributeError"]
              ELSE IF r.initialized = "no" THEN [r EXCEPT !.last = "returned"]
              ELSE IF "_obs" \notin r.has \/ r.closed
              THEN [r EXCEPT !.last = "AttributeError"]
              ELSE [Put(r, obs) EXCEPT !.puts = Append(@, obs),
                                       !.main = IF r.sync THEN "qjoin" ELSE "idle",
                                       !.last = IF r.sync THEN "joining" ELSE "returned"]
    /\ UNCHANGED <<rconVars, rd, ctl, run, env>>

\* self._obs_queue.join() in render(): returns when no task is unfinished.
QueueJoined ==
    /\ rnd.main = "qjoin"
    /\ rnd.unfinished = 0
    /\ rnd' = [rnd EXCEPT !.main = "idle", !.last = "returned"]
    /\ UNCHANGED <<rconVars, rd, ctl, run, env>>

\* init(...) and zoom(factor) up to their call of init_window; zoom reads
\* _last_zoom_time, which init sets.
WindowCall(op) ==
    /\ rnd.main = "idle"
    /\ rnd.windows < MaxWindows
    /\ rnd' = IF op = "zoom" /\ rnd.initialized = "unset"
              THEN [rnd EXCEPT !.windows = @ + 1, !.last = "AttributeError"]
              ELSE [rnd EXCEPT !.windows = @ + 1, !.main = "winwait", !.op = op,
                               !.last = "locking"]
    /\ UNCHANGED <<rconVars, rd, ctl, run, env>>

\* init_window entered: "with lock" has got render_lock.
EnterInitWindow ==
    /\ rnd.main = "winwait"
    /\ rnd.lock = "none"
    /\ rnd' = [rnd EXCEPT !.main = "inwin", !.lock = "main"]
    /\ UNCHANGED <<rconVars, rd, ctl, run, env>>

\* init_window left, by return or by pygame.error: init() catches the error
\* and records it in _initialized, zoom() lets it pass.
ExitInitWindow(outcome) ==
    /\ rnd.main = "inwin"
    /\ rnd' = [rnd EXCEPT !.main = "idle",
                          !.lock = WithLockExit("main", outcome),
                          !.initialized = IF rnd.op # "init" THEN @
                                          ELSE IF outcome = "ok" THEN "yes" ELSE "no",
                          !.last = IF rnd.op = "zoom" /\ outcome = "raise"
                                   THEN "pygame.error" ELSE "returned"]
    /\ UNCHANGED <<rconVars, rd, ctl, run, env>>

\* close() up to the join: nothing when the queue is gone already; else the
\* falsy item is queued.
Close ==
    /\ rnd.main = "idle"
    /\ rnd.closes < MaxCloses
    /\ rnd' = IF rnd.closed
              THEN [rnd EXCEPT !.closes = @ + 1, !.last = "returned"]
              ELSE [Put(rnd, NoneItem) EXCEPT !.closes = @ + 1, !.main = "tjoin",
                                              !.last = "joining"]
    /\ UNCHANGED <<rconVars, rd, ctl, run, env>>

\* self._render_thread.join() in close() returns: the thread has ended; the
\* queue and the thread are forgotten.
ThreadJoined ==
    /\ rnd.main = "tjoin"
    /\ rnd.thread \in {"done", "dead"}
    /\ rnd' = [rnd EXCEPT !.main = "idle", !.closed = TRUE, !.last = "returned"]
    /\ UNCHANGED <<rconVars, rd, ctl, run, env>>

\* The loop body from the test of self._video_writer on: task_done, and
\* back to the loop test with a truthy obs.
AfterRender(r) ==
    IF "_video_writer" \notin r.has
    THEN [r EXCEPT !.thread = "dead"]
    ELSE [TaskDone(r) EXCEPT !.thread = "get", !.cur = 0]

\* render_thread: get() hands over the next item; a falsy one is marked
\* done and ends the loop, an observation goes to prepare_actions.
ThreadGet ==
    LET item == Head(rnd.queue)
        r == [rnd EXCEPT !.queue = Tail(@), !.cur = item]
    IN
    /\ rnd.thread = "get"
    /\ rnd.queue # <<>>
    /\ rnd' = IF item = NoneItem
              THEN [TaskDone(r) EXCEPT !.thread = IF LeavesLoop(item) THEN "done"
                                                 ELSE "get"]
              ELSE IF "prepare_actions" \notin r.has
              THEN [r EXCEPT !.thread = "dead"]
              ELSE [r EXCEPT !.thread = "check"]
    /\ UNCHANGED <<rconVars, rd, ctl, run, env>>

\* render_thread: "if self._obs_queue.empty()" decides whether the
\* observation held is rendered.
ThreadCheck ==
    /\ rnd.thread = "check"
    /\ rnd' = IF rnd.queue = <<>>
              THEN [rnd EXCEPT !.thread = "lockw"]
              ELSE AfterRender(rnd)
    /\ UNCHANGED <<rconVars, rd, ctl, run, env>>

\* render_obs entered: "with lock" has got render_lock.
EnterRenderObs ==
    /\ rnd.thread = "lockw"
    /\ rnd.lock = "none"
    /\ rnd' = [rnd EXCEPT !.thread = "inobs", !.lock = "thread"]
    /\ UNCHANGED <<rconVars, rd, ctl, run, env>>

\* render_obs left, by return (self._obs is set, the frame is drawn) or by
\* an exception of the drawing, which ends the thread.
ExitRenderObs(outcome) ==
    LET r == [rnd EXCEPT !.lock = WithLockExit("thread", outcome)]
    IN
    /\ rnd.thread = "inobs"
    /\ rnd' = IF outcome = "raise"
              THEN [r EXCEPT !.thread = "dead"]
              ELSE AfterRender([r EXCEPT !.rendered = Append(@, r.cur),
                                         !.has = @ \cup {"_obs"}])
    /\ UNCHANGED <<rconVars, rd, ctl, run, env>>

\* A step of the render thread.
ThreadStep ==
    \/ ThreadGet
    \/ ThreadCheck
    \/ EnterRenderObs
    \/ \E outcome \in {"ok", "raise"} : ExitRenderObs(outcome)

\* ---------------------------------------------------------- second thread
\* The second thread's call ends with st.
OtherEnds(r, st, data, ret) ==
    [pc |-> "idle", call |-> NoCall, in_data |-> data, rx |-> r,
     result |-> ResultOf(other.call, st, data, ret)]

\* The second thread calls command(text) on the instance, once, whatever
\* the first thread is doing: nothing in the class keeps it out.
CommandB(text, unpack) ==
    /\ other.pc = "idle"
    /\ other.result = Pending
    /\ calls < MaxCalls
    /\ impl = "rcon" => unpack
    /\ calls' = calls + 1
    /\ UNCHANGED <<impl, rd, ctl, run, env, rnd, tlsmode, sock, inbuf, intag, pc, call, in_data, rx, result,
                   srvSent, authed, scope, scopeSock, scopeEnd>>
    /\ IF sock = NoSock
       THEN /\ other' = [other EXCEPT !.result =
                            ResultOf(CallOf("command", unpack, text, <<>>, sock),
                                     "notconnected", <<>>, NoRet)]
            /\ UNCHANGED socks
       ELSE \E sent \in SendOutcomes(socks[sock]) :
            IF sent # "ok"
            THEN /\ other' = [other EXCEPT !.result =
                                 ResultOf(CallOf("command", unpack, text, <<>>, sock),
                                          sent, <<>>, NoRet)]
                 /\ UNCHANGED socks
            ELSE /\ socks' = [socks EXCEPT ![sock].out = Sent(@, SERVERDATA_EXECCOMMAND)]
                 /\ other' = [pc |-> "recv",
                              call |-> CallOf("command", unpack, text,
                                              Frame(SERVERDATA_EXECCOMMAND, text), sock),
                              in_data |-> <<>>, rx |-> <<>>, result |-> Pending]

\* The receive code of the second thread, on the same socket.
ReadPacketB ==
    /\ other.pc = "recv"
    /\ HasFrame(inbuf)
    /\ UNCHANGED <<impl, rd, ctl, run, env, rnd, tlsmode, sock, socks, pc, call, in_data, rx, result, calls,
                   srvSent, authed, scope, scopeSock, scopeEnd>>
    /\ LET f == Dequeue(inbuf, intag, other.call.req) IN
       /\ inbuf' = f.rest
       /\ intag' = f.tags
       /\ IF Len(f.payload) < 8
          THEN other' = OtherEnds(other.rx, "struct", <<>>, NoRet)
          ELSE
          LET pkt == ParsePayload(f.payload)
              chk == SanityCheck(pkt)
              r1 == Append(other.rx, [id |-> pkt.id, type |-> pkt.type,
                                      body |-> pkt.body, pad |-> pkt.pad,
                                      raw |-> f.payload, tag |-> f.tag])
          IN
          IF chk # "ok"
          THEN other' = OtherEnds(r1, chk, <<>>, NoRet)
          ELSE IF impl = "rcon"
          THEN other' = [other EXCEPT
                           !.pc = "poll",
                           !.rx = r1,
                           !.in_data = Accumulate(other.in_data,
                                          IF other.call.unpack THEN StripLast(pkt.body)
                                          ELSE pkt.body)]
          ELSE IF other.call.unpack
          THEN LET u == Unpackb(StripLast(pkt.body)) IN
               IF u.ok THEN other' = OtherEnds(r1, "ok", StripLast(pkt.body), u.ret)
               ELSE other' = OtherEnds(r1, "msgpack", <<>>, NoRet)
          ELSE LET d == Utf8Decode(pkt.body) IN
               IF d.ok
               THEN other' = OtherEnds(r1, "ok", pkt.body, [kind |-> "str", v |-> d.s])
               ELSE other' = OtherEnds(r1, "unicode", <<>>, NoRet)

\* The poll of the second thread.
PollB ==
    /\ other.pc = "poll"
    /\ sock # NoSock
    /\ UNCHANGED <<impl, rd, ctl, run, env, rnd, tlsmode, sock, socks, inbuf, intag, pc, call, in_data, rx,
                   result, calls, srvSent, authed, scope, scopeSock, scopeEnd>>
    /\ IF NothingPending(inbuf, socks[sock])
       THEN IF other.call.unpack
            THEN LET u == Unpackb(other.in_data) IN
                 IF u.ok THEN other' = OtherEnds(other.rx, "ok", other.in_data, u.ret)
                 ELSE other' = OtherEnds(other.rx, "msgpack", <<>>, NoRet)
            ELSE other' = OtherEnds(other.rx, "ok", other.in_data,
                                    [kind |-> "bytes", v |-> other.in_data])
       ELSE other' = [other EXCEPT !.pc = "recv"]

Next ==
    \/ Connect
    \/ WithEnter
    \/ Disconnect
    \/ WithExit
    \/ \E text \in Texts, unpack \in BOOLEAN : Command(text, unpack)
    \/ \E p \in SrvPackets : ServerSend(p)
    \/ ServerEcho
    \/ ReadPacket
    \/ Poll

Spec == Init /\ [][Next]_vars

\* The client and the interpreter's collector.
NextGc ==
    \/ Next
    \/ Finalize

SpecGc == Init /\ [][NextGc]_vars

\* The client against a server that may close the connection at any time.
NextClose ==
    \/ Next
    \/ ServerClose
    \/ ReadAtEof

SpecClose == Init /\ [][NextClose]_vars

\* The client of src/rcon.py on its own.
InitRcon == Init /\ impl = "rcon"

\* One thread, and a server that keeps to the flush assumption.
NextFlush ==
    \/ Connect
    \/ Disconnect
    \/ \E text \in Texts, unpack \in BOOLEAN : Command(text, unpack)
    \/ \E p \in SrvPackets : ServerReplyInFlight(p)
    \/ ReadPacket
    \/ Poll

SpecFlush == InitRcon /\ [][NextFlush]_vars

\* The client of src/pyfactorio/api/rcon.py on its own.
InitApi == Init /\ impl = "api"

\* The api client, one thread, and a server that keeps to the flush
\* assumption (the api client has no poll).
NextFlushApi ==
    \/ Connect
    \/ Disconnect
    \/ \E text \in Texts, unpack \in BOOLEAN : Command(text, unpack)
    \/ \E p \in SrvPackets : ServerReplyInFlight(p)
    \/ ReadPacket

SpecFlushApi == InitApi /\ [][NextFlushApi]_vars

\* One thread, and a server that sends frames that are too short.
NextShort ==
    \/ Connect
    \/ \E text \in Texts, unpack \in BOOLEAN : Command(text, unpack)
    \/ \E f \in ShortFrames : ServerSendRaw(f)
    \/ ReadPacket
    \/ Poll

SpecShort == Init /\ [][NextShort]_vars

\* A FactorioController: start_game(), restart(), the launcher threads and
\* the server processes.
InitController ==
    /\ Constructed(0)
    /\ rnd = NoRenderer
    /\ env = NoEnv
    /\ impl = "api"
    /\ rd = NoRead
    /\ run = NoRunner
    /\ ctl = NewController

NextController ==
    \/ StartGame
    \/ Restart
    \/ \E i \in DOMAIN ctl.threads : Launch(i)
    \/ \E p \in DOMAIN ctl.procs, line \in OutputLines : Emit(p, line)
    \/ \E i \in DOMAIN ctl.threads : ReadLine(i)
    \/ WaitOver
    \/ RconConnect

SpecController == InitController /\ [][NextController]_vars

\* A FactorioController whose server processes may exit by themselves.
NextExit ==
    \/ StartGame
    \/ Restart
    \/ \E i \in DOMAIN ctl.threads : Launch(i)
    \/ \E p \in DOMAIN ctl.procs, line \in OutputLines : Emit(p, line)
    \/ \E p \in DOMAIN ctl.procs : ProcessExit(p)
    \/ \E i \in DOMAIN ctl.threads : ReadLine(i)
    \/ WaitOver
    \/ RconConnect

SpecExit == InitController /\ [][NextExit]_vars

\* A FactorioController over its life: start_game(), restart(), quit(), and
\* an interpreter that may finalize the clients left behind.
NextLife ==
    \/ NextController
    \/ Quit
    \/ \E k \in DOMAIN ctl.conns : RconFinalize(k)

SpecLife == InitController /\ [][NextLife]_vars

\* A FactorioEnv after _finalize, and a caller that goes on calling step()
\* and reset() whatever they raise.
InitEnv ==
    /\ Constructed(0)
    /\ rnd = NoRenderer
    /\ impl = "api"
    /\ rd = NoRead
    /\ ctl = NoController
    /\ run = NoRunner
    /\ \E mul \in StepMuls : env = NewEnv(mul)

NextEnv ==
    \/ EnvReset
    \/ \E actions \in EnvActions : EnvStep(actions)

SpecEnv == InitEnv /\ [][NextEnv]_vars

\* A RendererHuman with its render thread and one calling thread.
InitRenderer ==
    /\ Constructed(0)
    /\ impl = "api"
    /\ rd = NoRead
    /\ ctl = NoController
    /\ run = NoRunner
    /\ env = NoEnv
    /\ \E has \in SUBSET Attributes, sync \in BOOLEAN : rnd = NewRenderer(has, sync)

NextRenderer ==
    \/ Render
    \/ QueueJoined
    \/ \E op \in {"init", "zoom"} : WindowCall(op)
    \/ EnterInitWindow
    \/ \E outcome \in {"ok", "raise"} : ExitInitWindow(outcome)
    \/ Close
    \/ ThreadJoined
    \/ ThreadStep

SpecRenderer == InitRenderer /\ [][NextRenderer]_vars

\* The same with a scheduler that lets the render thread run and lets a
\* join return once it can.
SpecRendererFair ==
    SpecRenderer /\ WF_vars(ThreadStep) /\ WF_vars(ThreadJoined) /\ WF_vars(QueueJoined)

\* A FactorioRunner of either file: start(), the launcher thread and the
\* server process.
InitRunner ==
    /\ Constructed(0)
    /\ rnd = NoRenderer
    /\ env = NoEnv
    /\ impl = "api"
    /\ rd = NoRead
    /\ ctl = NoController
    /\ \E v \in {"env", "api"} : run = NewRunner(v)

NextRunner ==
    \/ RunnerStart
    \/ RunnerLaunch
    \/ \E line \in OutputLines : RunnerEmit(line)
    \/ RunnerExit
    \/ RunnerReadLine
    \/ RunnerWaitOver

SpecRunner == InitRunner /\ [][NextRunner]_vars

\* One thread, and a transport that may take less than the whole frame.
NextPartial ==
    \/ Connect
    \/ \E text \in Texts, unpack \in BOOLEAN : Command(text, unpack)
    \/ \E text \in Texts, unpack \in BOOLEAN : CommandShortWrite(text, unpack)
    \/ \E p \in SrvPackets : ServerSend(p)
    \/ ReadPacket
    \/ Poll

SpecPartial == Init /\ [][NextPartial]_vars

\* The byte streams a call of _read may find in front of it.
Streams ==
    {[i \in 1..m |-> (i * step) % 256] : m \in 0..(MaxRead + 1), step \in {1, 85}}

\* _read(length) called on a connected client, for every length up to
\* MaxRead and every stream.
InitRead ==
    /\ Constructed(0)
    /\ rnd = NoRenderer
    /\ env = NoEnv
    /\ ctl = NoController
    /\ run = NoRunner
    /\ \E n \in 0..MaxRead, s \in Streams :
          rd = [pc |-> "loop", length |-> n, data |-> <<>>, stream |-> s, all |-> s]

NextRead ==
    \/ ReadRecv
    \/ ReadReturn

SpecRead == InitRead /\ [][NextRead]_vars

\* One thread, and a server whose frames arrive at any time.
NextRace ==
    \/ Connect
    \/ \E text \in Texts, unpack \in BOOLEAN : Command(text, unpack)
    \/ \E p \in SrvPackets : ServerReply(p)
    \/ ReadPacket
    \/ Poll

SpecRace == InitRcon /\ [][NextRace]_vars

\* The response packets that pass the checks of the client.
AcceptedPackets == {p \in SrvPackets : SanityCheck(p) = "ok"}

\* Two threads on one instance, each calling command(""), and a server that
\* sends packets the client accepts.
NextTwo ==
    \/ Connect
    \/ Command(<<>>, TRUE)
    \/ CommandB(<<>>, TRUE)
    \/ \E p \in AcceptedPackets : ServerReply(p)
    \/ ReadPacket
    \/ Poll
    \/ ReadPacketB
    \/ PollB

SpecTwo == Init /\ [][NextTwo]_vars

\* The values of tlsmode the constructor is given: none, verified,
\* unverified, and one above.
TlsModes == 0..3

InitModes == (\E tm \in TlsModes : Constructed(tm)) /\ RconOnly

\* One thread in every transport-security mode, the server answering with
\* packets the checks accept.
NextModes ==
    \/ Connect
    \/ Disconnect
    \/ Command(<<>>, TRUE)
    \/ \E p \in AcceptedPackets : ServerSend(p)
    \/ ReadPacket
    \/ Poll

SpecModes == InitModes /\ [][NextModes]_vars

\* The same client built with a TLS mode.
SpecTls == InitTls /\ [][Next]_vars

\* ================================================================ claims
\* The call that ran last has ended (nothing is running).
Ended(op) == pc = "idle" /\ result.op = op

EndedCall == pc = "idle" /\ result.op \in {"connect", "command"}

\* The client holds no open socket.
HoldsNoOpenSocket == sock = NoSock \/ socks[sock].st = "closed"

\* The bytes the receive loop takes from each packet of r, joined in order:
\* the body, without its last byte when unpack is set.
RECURSIVE JoinBodies(_, _)
JoinBodies(r, unpack) ==
    IF r = <<>> THEN <<>>
    ELSE (IF unpack THEN StripLast(Head(r).body) ELSE Head(r).body)
           \o JoinBodies(Tail(r), unpack)

\* C1: when a call of src/rcon.py returns after N accepted packets (pending
\* bytes polled after the first N-1, none after the N-th), the payload it
\* assembled is the concatenation of what it took from all N bodies.
C1_Reassembly ==
    (impl = "rcon" /\ EndedCall /\ result.st = "ok")
        => result.data = JoinBodies(rx, result.unpack)

\* The response of the last call was the one packet a server makes by
\* sending the request frame back, and nothing was queued behind it.
EchoedBack ==
    /\ EndedCall
    /\ result.wrote # <<>>
    /\ Len(rx) = 1
    /\ PackI32(Len(rx[1].raw)) \o rx[1].raw = result.wrote

\* What a text-mode call returns for body b: the bytes (src/rcon.py) or the
\* decoded text (api).
TextPayload(b) ==
    IF impl = "rcon" THEN [kind |-> "bytes", v |-> Utf8Encode(b)]
    ELSE [kind |-> "str", v |-> b]

\* C2 as stated: the frame _send builds for b, fed back as the single
\* response packet, makes the call return exactly b, in every mode.
C2_RoundTrip ==
    EchoedBack => (result.st = "ok" /\ result.ret = TextPayload(result.text))

\* C2 amended: the frame fed back is parsed into exactly the bytes of b; a
\* call without unpack returns b, and a call with unpack hands b without
\* its last byte to msgpack.
C2_RoundTripText ==
    EchoedBack =>
        /\ rx[1].body = Utf8Encode(result.text)
        /\ ~result.unpack => (result.st = "ok" /\ result.ret = TextPayload(result.text))
        /\ result.unpack =>
              /\ result.st = "ok" => result.data = StripLast(Utf8Encode(result.text))
              /\ result.st = "ok" <=> Unpackb(StripLast(Utf8Encode(result.text))).ok

C2_Witness ==
    /\ EchoedBack
    /\ impl = "api"
    /\ result.op = "command"
    /\ ~result.unpack
    /\ result.text = <<47, 233>>
    /\ result.ret = [kind |-> "str", v |-> <<47, 233>>]

\* C3: a response packet whose last two bytes are not 00 00 ends the call
\* that read it with the padding error and no payload, whatever its id,
\* type, body and place in the response.
C3_BadPadding ==
    \A i \in DOMAIN rx :
        rx[i].pad # PAD =>
            /\ i = Len(rx)
            /\ EndedCall
            /\ result.st = "padding"
            /\ result.data = <<>>
            /\ result.ret = NoRet

\* a command() stopped by the wrong padding of the second packet of its
\* response, a packet that also carries the login-failure id
C3_Witness ==
    /\ Ended("command")
    /\ result.st = "padding"
    /\ Len(rx) = 2
    /\ rx[2].id = LOGIN_FAILED_ID
    /\ rx[2].pad = <<1, 0>>

\* C4: a response packet with good padding and request id -1 ends the call
\* that read it with the login failure, whatever its type and body, in
\* connect() and in command().
C4_LoginFailed ==
    \A i \in DOMAIN rx :
        (rx[i].pad = PAD /\ rx[i].id = LOGIN_FAILED_ID) =>
            /\ i = Len(rx)
            /\ EndedCall
            /\ result.st = "login"
            /\ result.ret = NoRet

\* a command() stopped by a packet with id -1 whose type is neither 2 nor 3
C4_Witness ==
    /\ Ended("command")
    /\ result.st = "login"
    /\ rx[Len(rx)].type = 0
    /\ rx[Len(rx)].body = AB

\* C5: connect() returns normally only on a reply none of whose packets
\* carries request id -1, and then the client holds a connected socket, which
\* is what command() asks for before it writes.
C5_ConnectOk ==
    (Ended("connect") /\ result.st = "ok") =>
        /\ rx # <<>>
        /\ \A i \in DOMAIN rx : rx[i].id # LOGIN_FAILED_ID
        /\ result.wrote = Frame(SERVERDATA_AUTH, Password)
        /\ authed
        /\ sock # NoSock
        /\ socks[sock].st = "connected"

\* connect() with password "pass" returned on a reply with request id 0
\* and the command() that followed has written its packet
C5_Witness ==
    /\ pc = "recv"
    /\ call.op = "command"
    /\ authed
    /\ socks[sock].out = <<SERVERDATA_AUTH, SERVERDATA_EXECCOMMAND>>
    /\ Password = <<112, 97, 115, 115>>

\* C6: after connect() raised the login failure the client holds no open
\* socket, as before the call.
C6_LoginFailureReleases ==
    (Ended("connect") /\ result.st = "login") => HoldsNoOpenSocket

\* C7: a command() gets as far as writing its packet only in the
\* Authenticated state.
C7_CommandNeedsAuth ==
    (pc # "idle" /\ call.op = "command") => authed

\* A step that is a call of disconnect() by the caller.
DisconnectCall == calls' = calls + 1 /\ result'.op = "disconnect"

\* C8: disconnect() never raises; after it self.socket is None and the socket
\* it held is closed; called again right after, it changes nothing.
C8_DisconnectIdempotent ==
    [][DisconnectCall =>
          /\ result'.st = "ok"
          /\ sock' = NoSock
          /\ sock # NoSock => socks'[sock].st = "closed"
          /\ \A i \in DOMAIN socks : i # sock => socks'[i] = socks[i]
          /\ Ended("disconnect") => (sock' = sock /\ socks' = socks)]_vars

\* connect(), then disconnect() twice in a row
C8_Witness ==
    /\ Ended("disconnect")
    /\ result.before = NoSock
    /\ calls = 3
    /\ scopeEnd = "none"
    /\ Len(socks) = 1
    /\ socks[1].st = "closed"
    /\ socks[1].out = <<SERVERDATA_AUTH>>

\* C9: after connect() or command() raised, the client holds no open socket.
C9_ErrorReleases ==
    (EndedCall /\ result.st # "ok") => HoldsNoOpenSocket

\* C10: however the with-statement was left, the socket opened for it is
\* closed afterwards.
C10_ScopedRelease ==
    (scope = "none" /\ scopeEnd # "none") => socks[scopeSock].st = "closed"

\* w, read as bytes on the wire, is a request of the given type for text:
\* length prefix = bytes that follow = 8 + byteLength(body) + 2, request id
\* 0, the type, the UTF-8 bytes of text, 00 00.
IsRequestFrame(w, type, text) ==
    /\ Len(w) >= 14
    /\ UnpackI32(SubSeq(w, 1, 4)) = Len(w) - 4
    /\ UnpackI32(SubSeq(w, 1, 4)) = 8 + Len(Utf8Encode(text)) + 2
    /\ SubSeq(w, 5, 8) = <<0, 0, 0, 0>>
    /\ SubSeq(w, 9, 12) = <<type, 0, 0, 0>>
    /\ Utf8Decode(SubSeq(w, 13, Len(w) - 2)) = [ok |-> TRUE, s |-> text]
    /\ SubSeq(w, Len(w) - 1, Len(w)) = <<0, 0>>

\* C11: every packet written has request id 0, type 3 from connect() and 2
\* from command(), the UTF-8 bytes of the given text as body, 00 00 at the
\* end, and a little-endian length prefix counting the bytes after it.
C11_RequestFrame ==
    /\ call.wrote # <<>> =>
          /\ call.op \in {"connect", "command"}
          /\ IsRequestFrame(call.wrote, IF call.op = "connect" THEN 3 ELSE 2, call.text)
    /\ result.wrote # <<>> =>
          /\ result.op \in {"connect", "command"}
          /\ IsRequestFrame(result.wrote, IF result.op = "connect" THEN 3 ELSE 2,
                            result.text)

\* command("/e-acute") has written its 17 bytes
C11_Witness ==
    /\ pc = "recv"
    /\ call.op = "command"
    /\ call.text = <<47, 233>>
    /\ call.wrote = <<13, 0, 0, 0, 0, 0, 0, 0, 2, 0, 0, 0, 47, 195, 169, 0, 0>>

\* C12: on every socket the first packet written is the AUTH packet of
\* connect(), carrying the password, and it is the only AUTH packet: every
\* other packet on the socket is a COMMAND packet written after it.
C12_AuthFirst ==
    /\ \A i \in 1..Len(socks) :
          LET out == socks[i].out IN
          out # <<>> =>
             /\ out[1] = SERVERDATA_AUTH
             /\ \A j \in 2..Len(out) : out[j] = SERVERDATA_EXECCOMMAND
    /\ (call.op = "connect" /\ call.wrote # <<>>) =>
          IsRequestFrame(call.wrote, SERVERDATA_AUTH, Password)
    /\ (result.op = "connect" /\ result.wrote # <<>>) =>
          IsRequestFrame(result.wrote, SERVERDATA_AUTH, Password)

\* C13: when the peer has closed the socket and the bytes the running
\* connect() or command() is reading have not arrived, the read ends the
\* call with a connection error: the call does not stay in the read.
C13_PeerCloseEndsCall ==
    [][(/\ pc = "recv"
        /\ ~HasFrame(inbuf)
        /\ socks[sock].eof
        /\ pc' # pc)
          => (pc' = "idle" /\ result'.st = "connection")]_vars

\* The tags of the packets whose bytes are in the payload assembled from
\* the packets of r: the receive loop run over the tags.
RECURSIVE PayloadTags(_)
PayloadTags(r) ==
    IF r = <<>> THEN <<>>
    ELSE Accumulate(PayloadTags(SubSeq(r, 1, Len(r) - 1)), <<r[Len(r)].tag>>)

\* The last call was a command() that returned normally after reading the
\* server's reply to it.
AnsweredCommand ==
    /\ Ended("command")
    /\ result.st = "ok"
    /\ \E i \in 1..Len(rx) : rx[i].tag.re = result.req

\* C14: with a server that has queued its whole reply before the poll
\* finds nothing pending, and one command after the other, the payload a
\* command() returns is made only of bytes of packets sent in reply to that
\* command, and nothing is left unread in the socket when it returns.
C14_OwnReplyOnly ==
    AnsweredCommand =>
        /\ \A i \in 1..Len(PayloadTags(rx)) : PayloadTags(rx)[i].re = result.req
        /\ inbuf = <<>>

\* a command() has returned on a reply of two packets
C14_Witness ==
    /\ AnsweredCommand
    /\ Len(rx) = 2
    /\ \A i \in 1..2 : rx[i].tag.re = result.req
    /\ inbuf = <<>>

\* The step is the caller invoking connect() / command().
Invokes(op) ==
    /\ calls' = calls + 1
    /\ (IF pc' = "idle" THEN result'.op ELSE call'.op) = op

\* C15: the poll is a race.  A call returns at the instant its poll finds
\* nothing queued; a packet of the response that arrives after that stays
\* queued behind the returned command(); the next command() leaves it in
\* the queue, where it is the first packet that command() reads.
C15_PollRace ==
    [][/\ (pc = "poll" /\ pc' = "idle" /\ result'.st = "ok") =>
             (inbuf = <<>> /\ inbuf' = <<>>)
       /\ (Ended("command") /\ result.st = "ok" /\ srvSent' = srvSent + 1) =>
             /\ pc' = "idle"
             /\ result' = result
             /\ inbuf' # <<>>
             /\ intag'[Len(intag')] = [re |-> result.req, late |-> TRUE]
       /\ (Invokes("command") /\ pc' = "recv") =>
             (inbuf' = inbuf /\ intag' = intag)]_vars

\* a command() has returned a payload made of a packet that the server sent
\* in reply to the command() before it, after that one had returned
C15_Witness ==
    /\ Ended("command")
    /\ result.st = "ok"
    /\ rx # <<>>
    /\ rx[1].tag.late
    /\ rx[1].tag.re >= 2
    /\ rx[1].tag.re < result.req
    /\ PayloadTags(rx) = <<rx[1].tag>>

\* C16: nothing in the client ties a packet to a caller.  Each thread's read
\* takes the frame at the front of the one queue they share, whichever
\* command it answers.
C16_NoCorrelation ==
    [][/\ Len(rx') = Len(rx) + 1 =>
             /\ rx'[Len(rx')].tag = Head(intag)
             /\ rx'[Len(rx')].raw = FirstPayload(inbuf).payload
       /\ Len(other'.rx) = Len(other.rx) + 1 =>
             /\ other'.rx[Len(other'.rx)].tag = Head(intag)
             /\ other'.rx[Len(other'.rx)].raw = FirstPayload(inbuf).payload]_vars

\* two command() calls are running, and the first thread has read a packet
\* the server sent in reply to the second thread's command
C16_Witness ==
    /\ pc # "idle"
    /\ other.pc # "idle"
    /\ call.op = "command"
    /\ other.call.op = "command"
    /\ other.call.req # call.req
    /\ \E i \in 1..Len(rx) : rx[i].tag.re = other.call.req

\* The bodies of the packets of r as they came off the wire, joined in order.
RECURSIVE WholeBody(_)
WholeBody(r) ==
    IF r = <<>> THEN <<>> ELSE Head(r).body \o WholeBody(Tail(r))

\* C17: in binary-decode mode the bytes handed to the deserializer (in_data
\* at the step that ends the call in msgpack.unpackb, whether it returns or
\* raises) are the joined bodies of all packets of the response without
\* their one final byte, whatever the number of packets.
C17_OneStripPerResponse ==
    [][(/\ call.unpack
        /\ pc # "idle"
        /\ pc' = "idle"
        /\ result'.st \in {"ok", "msgpack"})
          => in_data' = StripLast(WholeBody(rx'))]_vars

\* Sockets the instance has opened and that nothing has closed yet.
OpenSockets == {i \in 1..Len(socks) : socks[i].st # "closed"}

\* C18: whatever the sequence of connect(), command() and disconnect(), a
\* second connect() without disconnect() included, the instance has at most
\* one socket opened and not yet closed.
C18_AtMostOneOpenSocket == Cardinality(OpenSockets) <= 1

\* Packets written so far, over all sockets of ss.
RECURSIVE WrittenCount(_)
WrittenCount(ss) ==
    IF ss = <<>> THEN 0 ELSE Len(Head(ss).out) + WrittenCount(Tail(ss))

\* Sockets opened and packets written by the step.
OpenedInStep == Len(socks') - Len(socks)
WrittenInStep == WrittenCount(socks') - WrittenCount(socks)

\* C19 as stated: each connect() opens at most one socket and writes exactly
\* one packet, each command() writes exactly one packet, and nothing is
\* opened or written in any step that is not an invocation by the caller.
C19_NoRetryExactlyOne ==
    [][/\ calls' = calls => (OpenedInStep = 0 /\ WrittenInStep = 0)
       /\ Invokes("connect") => (OpenedInStep <= 1 /\ WrittenInStep = 1)
       /\ Invokes("command") => (OpenedInStep = 0 /\ WrittenInStep = 1)]_vars

\* C19, amended: each connect() opens at most one socket, each command()
\* none; a call writes one packet when it gets as far as the write (it then
\* waits for the response) and none when it raises before; nothing is
\* opened or written in any step that is not an invocation by the caller.
C19_NoRetry ==
    [][/\ calls' = calls => (OpenedInStep = 0 /\ WrittenInStep = 0)
       /\ Invokes("connect") =>
             /\ OpenedInStep <= 1
             /\ WrittenInStep = (IF pc' = "recv" THEN 1 ELSE 0)
       /\ Invokes("command") =>
             /\ OpenedInStep = 0
             /\ WrittenInStep = (IF pc' = "recv" THEN 1 ELSE 0)]_vars

\* a call has ended in an error on a socket that carries the one AUTH packet
\* and the one COMMAND packet of the two calls made on it
C19_Witness ==
    /\ pc = "idle"
    /\ result.op = "command"
    /\ result.st \notin {"ok", "pending"}
    /\ result.wrote # <<>>
    /\ sock # NoSock
    /\ socks[sock].out = <<3, 2>>
    /\ Len(socks) = 1

\* C20: a command() that returns normally has run exactly one delay of the
\* fixed length, and none while its response was still being received;
\* connect() runs none, and neither does a command() that ends in an error.
C20_OneDelayPerCommand ==
    /\ pc # "idle" => result.slept = <<>>
    /\ (result.op = "command" /\ result.st = "ok") =>
          result.slept = <<COMMAND_DELAY_MS>>
    /\ result.op = "connect" => result.slept = <<>>
    /\ (result.op = "command" /\ result.st # "ok") => result.slept = <<>>

\* a command() answered by one packet has returned after its delay
C20_Witness ==
    /\ result.op = "command"
    /\ result.st = "ok"
    /\ Len(rx) = 1
    /\ result.slept = <<3>>

\* C21: in _receive_all of src/rcon.py the poll is made after every accepted
\* packet and only then (never before the first packet is read); the call
\* returns exactly when that poll finds nothing queued, and goes back to
\* read one more packet exactly when it finds bytes pending.
C21_PollDecides ==
    [][impl = "rcon" =>
         /\ (pc # "poll" /\ pc' = "poll") =>
               (pc = "recv" /\ Len(rx') = Len(rx) + 1)
         /\ (pc = "recv" /\ Len(rx') = Len(rx) + 1 /\ pc' # "idle") => pc' = "poll"
         /\ (pc = "poll" /\ pc' # "poll") =>
               IF inbuf = <<>>
               THEN pc' = "idle" /\ result'.st \in {"ok", "msgpack"}
               ELSE pc' = "recv" /\ inbuf' = inbuf /\ rx' = rx
         /\ (pc # "idle" /\ pc' = "idle" /\ result'.st = "ok") =>
               (pc = "poll" /\ inbuf = <<>>)]_vars

\* a call of src/rcon.py has polled twice: pending bytes after its first
\* packet, nothing after its second
C21_Witness ==
    /\ impl = "rcon"
    /\ EndedCall
    /\ result.st = "ok"
    /\ Len(rx) = 2
    /\ inbuf = <<>>

\* C22: when command() of src/pyfactorio/api/rcon.py returns, it has read
\* every packet the server sent in reply to it: none of them is still
\* queued in the socket for the next command() to read, and the payload is
\* made of the bodies of all of them.
C22_WholeResponseConsumed ==
    (impl = "api" /\ AnsweredCommand) =>
        /\ \A i \in 1..Len(intag) : intag[i].re # result.req
        /\ result.data = (IF result.unpack THEN StripLast(WholeBody(rx))
                          ELSE WholeBody(rx))

\* The payload bytes pl carry request id -1 and end in something other than
\* 00 00.
BadPaddingAndLoginId(pl) ==
    /\ Len(pl) >= 10
    /\ SubSeq(pl, 1, 4) = <<255, 255, 255, 255>>
    /\ SubSeq(pl, Len(pl) - 1, Len(pl)) # <<0, 0>>

\* C23: a response packet with both a wrong padding and request id -1 ends
\* the call with the padding error, not with the login failure.
C23_PaddingBeforeLogin ==
    \A i \in DOMAIN rx :
        BadPaddingAndLoginId(rx[i].raw) =>
            /\ i = Len(rx)
            /\ EndedCall
            /\ result.st = "padding"

\* connect() answered by one packet with id -1 and padding 01 00
C23_Witness ==
    /\ Ended("connect")
    /\ Len(rx) = 1
    /\ BadPaddingAndLoginId(rx[1].raw)
    /\ result.st = "padding"
    /\ ~authed

\* The length the first frame of buf declares.
DeclaredLength(buf) == UnpackI32(SubSeq(buf, 1, 4))

\* C24: a frame that declares a negative length or a length below 10 is
\* never accepted as a packet: the read of such a frame ends the call with
\* an error of the frame and without a payload.
C24_ShortFrameRejected ==
    [][(/\ pc = "recv"
        /\ HasFrame(inbuf)
        /\ DeclaredLength(inbuf) < 10
        /\ Len(inbuf') < Len(inbuf))
          => /\ pc' = "idle"
             /\ result'.st \in {"padding", "struct"}
             /\ result'.ret = NoRet]_vars

\* C25: _read(length) takes the bytes of the stream in order and never more
\* than length of them, whatever the sizes of the partial reads; every
\* partial read brings it nearer to length, and what it returns is exactly
\* the first length bytes of the stream.
C25_ReadExact ==
    /\ [](rd.pc # "none" =>
            /\ rd.data \o rd.stream = rd.all
            /\ Len(rd.data) <= (IF rd.length > 0 THEN rd.length ELSE 0)
            /\ rd.pc = "done" => rd.data = SubSeq(rd.all, 1, rd.length))
    /\ [][(rd.pc = "loop" /\ rd'.pc = "loop") =>
             /\ Len(rd'.data) > Len(rd.data)
             /\ Len(rd'.data) <= rd.length]_vars

\* _read(4) has returned after partial reads on a stream of 5 bytes, and
\* the fifth byte is still in the stream
C25_Witness ==
    /\ rd.pc = "done"
    /\ rd.length = 4
    /\ rd.data = <<85, 170, 255, 84>>
    /\ rd.stream = <<169>>

\* The frame of the request of the call in progress.
RequestFrame ==
    Frame(IF call.op = "connect" THEN SERVERDATA_AUTH ELSE SERVERDATA_EXECCOMMAND,
          call.text)

\* C26: while the client waits for the response, the whole request frame
\* (length prefix and payload) has been handed to the transport, never only
\* a prefix of it.
C26_WholeFrameWritten ==
    pc \in {"recv", "poll"} => call.wrote = RequestFrame

\* C27: a socket is TLS-wrapped exactly when tlsmode > 0, and it is so
\* already when the TCP connect has not succeeded; a wrapped socket verifies
\* host name and certificate exactly when tlsmode < 2; a handshake is done
\* only on a wrapped socket that got connected; and AUTH is written only on
\* a socket that got connected.
C27_TransportSecurity ==
    \A i \in DOMAIN socks :
        /\ socks[i].tls = (tlsmode > 0)
        /\ socks[i].tls => (socks[i].verify = ~(tlsmode >= 2))
        /\ ~socks[i].tls => ~socks[i].verify
        /\ socks[i].handshake => (socks[i].tls /\ socks[i].st # "created")
        /\ (\E j \in DOMAIN socks[i].out : socks[i].out[j] = SERVERDATA_AUTH) =>
              socks[i].st # "created"

\* with tlsmode 3 one connect was refused, leaving a wrapped, unverified
\* socket that never got AUTH, and a second one went through the handshake
\* and wrote AUTH
C27_Witness ==
    /\ tlsmode = 3
    /\ Len(socks) = 2
    /\ socks[1].st = "created" /\ socks[1].tls /\ socks[1].out = <<>>
    /\ socks[2].st = "connected" /\ socks[2].tls /\ socks[2].handshake
    /\ ~socks[2].verify
    /\ socks[2].out = <<SERVERDATA_AUTH>>

\* Some server process the controller launched has printed a line with
\* "joined the game" in it.
SomeProcessJoined == \E p \in DOMAIN ctl.procs : ctl.procs[p].joined

C29_ReadyOfCurrentProcess ==
    \A k \in DOMAIN ctl.attempts : ctl.attempts[k].joined

\* C30: the runner's _ready is true, and start() is past its wait loop, only
\* after the server process has printed a line with "joined the game" in it.
C30_RunnerReadyAfterJoined ==
    /\ run.ready => run.joined
    /\ run.main = "started" => run.joined

\* The server process has exited without a line with "joined the game" in
\* it, its output is read to the end and the launcher thread has ended.
ServerGoneUnready ==
    /\ ctl.procs # <<>>
    /\ \A p \in DOMAIN ctl.procs :
          ~ctl.procs[p].alive /\ ctl.procs[p].pipe = <<>> /\ ~ctl.procs[p].joined
    /\ \A i \in DOMAIN ctl.threads : ctl.threads[i].pc = "done"

\* C31: start_game() does not stay in its wait loop once the server process
\* has exited without printing "joined the game": when the output is at its
\* end and the launcher thread is over, start_game() has returned or raised.
C31_StartGameEnds ==
    ServerGoneUnready => ctl.main # "wait"

\* The RCON clients of the controller that are open.
OpenConns == {k \in DOMAIN ctl.conns : ctl.conns[k] = "open"}

\* C32: at most one RCON connection created by the controller is open at
\* any time, and none after quit().
C32_OneConnection ==
    /\ Cardinality(OpenConns) <= 1
    /\ ctl.main = "quit" => OpenConns = {}

C35_CloseEnds ==
    /\ (rnd.main = "tjoin") ~> (rnd.closed /\ rnd.thread \in {"done", "dead"})
    /\ [](rnd.thread = "done" => (rnd.closes > 0 /\ rnd.cur = NoneItem))
    /\ [][(rnd.closed /\ rnd'.closes = rnd.closes + 1) =>
             rnd' = [rnd EXCEPT !.closes = @ + 1, !.last = "returned"]]_vars

\* close() was called twice on a renderer whose thread had rendered an
\* observation: the thread left its loop and both calls returned
C35_Witness ==
    /\ rnd.closes = 2
    /\ rnd.closed
    /\ rnd.thread = "done"
    /\ rnd.main = "idle"
    /\ rnd.rendered # <<>>

\* The queue has gone quiet: it is empty and the render thread holds no
\* observation.
Quiet == rnd.queue = <<>> /\ rnd.thread \in {"get", "done", "dead"}

C38_RenderLock ==
    /\ ~(rnd.main = "inwin" /\ rnd.thread = "inobs")
    /\ (rnd.lock = "main") = (rnd.main = "inwin")
    /\ (rnd.lock = "thread") = (rnd.thread = "inobs")

\* zoom() waits for render_lock while the render thread is inside
\* render_obs
C38_Witness ==
    /\ rnd.main = "winwait"
    /\ rnd.op = "zoom"
    /\ rnd.thread = "inobs"
    /\ rnd.lock = "thread"

====
